---------------------------- MODULE Spec2Model ----------------------------
(***************************************************************************)
(* A model of src/main.py: the one-directional synchronisation of the      *)
(* cards of a Trello list onto a Google calendar.                          *)
(*                                                                         *)
(* Strings are sequences of one-character strings, so that formatting      *)
(* (f-strings, strftime) and parsing (split, strptime) are computed        *)
(* character by character, as the code computes them.                      *)
(***************************************************************************)
EXTENDS Integers, Sequences, FiniteSets, TLC

\* Python's None.  It is a sequence (like every string of the model) whose
\* single element is no character, so that it differs from every string.
None == <<"None">>

\* A key that a dict does not hold (card.get(k) then gives None, card[k]
\* raises KeyError).
Absent == <<"Absent">>

(***************************************************************************)
(* String helpers.                                                         *)
(***************************************************************************)
Digit(n) ==
    CASE n = 0 -> "0" [] n = 1 -> "1" [] n = 2 -> "2" [] n = 3 -> "3"
      [] n = 4 -> "4" [] n = 5 -> "5" [] n = 6 -> "6" [] n = 7 -> "7"
      [] n = 8 -> "8" [] n = 9 -> "9"

DigitChars == {"0", "1", "2", "3", "4", "5", "6", "7", "8", "9"}

DigitVal(c) == CHOOSE n \in 0..9 : Digit(n) = c

\* str(n) for n >= 0.
RECURSIVE Dec(_)
Dec(n) == IF n < 10 THEN <<Digit(n)>> ELSE Dec(n \div 10) \o <<Digit(n % 10)>>

\* "%02d" % n.
Pad2(n) == IF n < 10 THEN <<"0", Digit(n)>> ELSE Dec(n)

\* int(s[p .. p+k-1]) for a run of digits.
RECURSIVE Num(_, _, _)
Num(s, p, k) ==
    IF k = 0 THEN 0 ELSE Num(s, p, k - 1) * 10 + DigitVal(s[p + k - 1])

\* The number of consecutive digits of s from position p on.
RECURSIVE DigitRun(_, _)
DigitRun(s, p) ==
    IF p > Len(s) \/ s[p] \notin DigitChars THEN 0 ELSE 1 + DigitRun(s, p + 1)

\* sub occurs in s at position p.
OccursAt(s, sub, p) ==
    /\ p >= 1
    /\ p + Len(sub) - 1 <= Len(s)
    /\ \A k \in 1..Len(sub) : s[p + k - 1] = sub[k]

\* s.find(sub) from position p on: the first position of sub, 0 when none.
RECURSIVE Find(_, _, _)
Find(s, sub, p) ==
    IF p + Len(sub) - 1 > Len(s) THEN 0
    ELSE IF OccursAt(s, sub, p) THEN p
    ELSE Find(s, sub, p + 1)

\* sub in s.
Contains(s, sub) == Find(s, sub, 1) # 0

\* s.split(sep): the list of the pieces between the occurrences of sep.
RECURSIVE Split(_, _)
Split(s, sep) ==
    LET p == Find(s, sep, 1) IN
    IF p = 0 THEN <<s>>
    ELSE <<SubSeq(s, 1, p - 1)>> \o Split(SubSeq(s, p + Len(sep), Len(s)), sep)


(***************************************************************************)
(* Timestamp conversion: convert_utc_to_jst.                               *)
(***************************************************************************)
CharAt(s, p) == IF p \in 1..Len(s) THEN s[p] ELSE ""

\* A literal of the format at position p.  strptime compiles the format
\* with re.IGNORECASE, so the letters T and Z match in either case.
LitAt(s, p, c) ==
    \/ CharAt(s, p) = c
    \/ c = "T" /\ CharAt(s, p) = "t"
    \/ c = "Z" /\ CharAt(s, p) = "z"

\* The numeric directives of a format, with the number of digits and the
\* values their regular expressions match.
Directives == {"%Y", "%m", "%d", "%H", "%M", "%S", "%f"}

DirectiveOk(tok, n, v) ==
    CASE tok = "%Y" -> n = 4
      [] tok = "%m" -> n \in 1..2 /\ v \in 1..12
      [] tok = "%d" -> n \in 1..2 /\ v \in 1..31
      [] tok = "%H" -> n \in 1..2 /\ v \in 0..23
      [] tok = "%M" -> n \in 1..2 /\ v \in 0..59
      [] tok = "%S" -> n \in 1..2 /\ v \in 0..61
      [] tok = "%f" -> n \in 1..6

\* The match of s from position p on against the format fmt from its
\* token k on; acc holds the values of the directives matched so far.
\* The digits at a directive must be the whole of its match, since what
\* follows a directive in these formats is never a digit.  %d also
\* matches a blank followed by one digit.
RECURSIVE Match(_, _, _, _, _)
Match(s, p, fmt, k, acc) ==
    IF k > Len(fmt) THEN [acc EXCEPT !["ok"] = IF p = Len(s) + 1 THEN 1 ELSE 0]
    ELSE IF fmt[k] \in Directives
    THEN LET blank == fmt[k] = "%d" /\ CharAt(s, p) = " "
             q     == IF blank THEN p + 1 ELSE p
             n     == DigitRun(s, q)
         IN  IF DirectiveOk(fmt[k], n, Num(s, q, n)) /\ (blank => n = 1)
             THEN Match(s, q + n, fmt, k + 1, [acc EXCEPT ![fmt[k]] = Num(s, q, n)])
             ELSE acc
    ELSE IF LitAt(s, p, fmt[k]) THEN Match(s, p + 1, fmt, k + 1, acc)
    ELSE acc

\* "%Y-%m-%dT%H:%M:%SZ"
FormatPlain ==
    <<"%Y", "-", "%m", "-", "%d", "T", "%H", ":", "%M", ":", "%S", "Z">>

\* "%Y-%m-%dT%H:%M:%S.%fZ"
FormatFraction ==
    <<"%Y", "-", "%m", "-", "%d", "T", "%H", ":", "%M", ":", "%S", ".", "%f", "Z">>

NoMatch == [tok \in Directives \cup {"ok"} |-> 0]

IsLeap(y) == (y % 4 = 0 /\ y % 100 # 0) \/ y % 400 = 0

DaysInMonth(y, m) ==
    IF m = 2 THEN (IF IsLeap(y) THEN 29 ELSE 28)
    ELSE IF m \in {4, 6, 9, 11} THEN 30 ELSE 31

\* datetime.strptime(s, fmt): [ok |-> FALSE] stands for ValueError (no
\* match of the format, or no such date or second).
strptime(s, fmt) ==
    LET m == Match(s, 1, fmt, 1, NoMatch) IN
    IF /\ m["ok"] = 1
       /\ m["%Y"] >= 1
       /\ m["%d"] <= DaysInMonth(m["%Y"], m["%m"])
       /\ m["%S"] <= 59
    THEN [ok |-> TRUE, year |-> m["%Y"], month |-> m["%m"], day |-> m["%d"],
          hour |-> m["%H"], minute |-> m["%M"], second |-> m["%S"]]
    ELSE [ok |-> FALSE]

\* The offset of the target timezone, in hours.
JstOffsetHours == 9

\* utc_date + timedelta(hours=9): [ok |-> FALSE] stands for OverflowError
\* (a date after year 9999).
AddHours(t, h) ==
    LET hh     == t.hour + h
        carry  == hh \div 24
        dd     == t.day + carry
        over   == dd > DaysInMonth(t.year, t.month)
        day2   == IF over THEN dd - DaysInMonth(t.year, t.month) ELSE dd
        mm     == IF over THEN t.month + 1 ELSE t.month
        month2 == IF mm > 12 THEN 1 ELSE mm
        year2  == IF mm > 12 THEN t.year + 1 ELSE t.year
    IN  IF year2 > 9999 THEN [ok |-> FALSE]
        ELSE [ok |-> TRUE, year |-> year2, month |-> month2, day |-> day2,
              hour |-> hh % 24, minute |-> t.minute, second |-> t.second]

\* jst_date.strftime("%Y-%m-%d") (the C library does not pad the year).
FormatDate(t) == Dec(t.year) \o <<"-">> \o Pad2(t.month) \o <<"-">> \o Pad2(t.day)

\* jst_date.strftime("%H:%M:%S").
FormatTime(t) == Pad2(t.hour) \o <<":">> \o Pad2(t.minute) \o <<":">> \o Pad2(t.second)

\* not x, for a value that is None or a string.
Falsy(x) == x = None \/ x = <<>>

\* a or b.
Or(a, b) == IF Falsy(a) THEN b ELSE a

\* convert_utc_to_jst(utc_str).  raised: an exception other than the
\* ValueError the function catches leaves it (OverflowError).
convert_utc_to_jst(utc_str) ==
    IF Falsy(utc_str) THEN [raised |-> FALSE, date |-> None, time |-> None]
    ELSE LET fmt    == IF Contains(utc_str, <<".">>) THEN FormatFraction ELSE FormatPlain
             parsed == strptime(utc_str, fmt)
         IN
         IF ~parsed.ok THEN [raised |-> FALSE, date |-> None, time |-> None]
         ELSE LET jst_date == AddHours(parsed, JstOffsetHours) IN
              IF ~jst_date.ok THEN [raised |-> TRUE, date |-> None, time |-> None]
              ELSE [raised |-> FALSE, date |-> FormatDate(jst_date),
                    time |-> FormatTime(jst_date)]

(***************************************************************************)
(* Literals of the program.  The three katakana of the marker and the      *)
(* Japanese characters of the two board labels are written as the tokens   *)
(* "ka", "~", "do", "fu", "mei", "na", "bo", "mu", "no": one token is one  *)
(* character.                                                              *)
(***************************************************************************)
\* "TrelloカードID: "
Marker == <<"T", "r", "e", "l", "l", "o", "ka", "~", "do", "I", "D", ":", " ">>

\* "不明なボード": what get_board_name returns when the request fails.
UnknownBoard == <<"fu", "mei", "na", "bo", "~", "do">>

\* "無名のボード": the default of response.json().get("name", ...).
NamelessBoard == <<"mu", "mei", "no", "bo", "~", "do">>

DefaultStartTime == <<"0", "9", ":", "0", "0", ":", "0", "0">>

DefaultEndTime == <<"1", "8", ":", "0", "0", ":", "0", "0">>

TimeZone == "Asia/Tokyo"

\* maxResults of the one events().list() request; no further page is read.
MaxResults == 2500

(***************************************************************************)
(* Dictionaries.  A card is a record of its JSON fields; a field is Absent *)
(* when the key is missing and None when its value is null.                *)
(***************************************************************************)
\* d.get(key): v is the field's value.
Get(v) == IF v = Absent THEN None ELSE v

\* d.get(key, default).
GetOr(v, default) == IF v = Absent THEN default ELSE v

\* The text an f-string gives for a value.
Str(v) == IF v = None THEN <<"N", "o", "n", "e">> ELSE v

\* existing_events.get(card_id).
DictGet(d, k) == IF k \in DOMAIN d THEN d[k] ELSE None

(***************************************************************************)
(* get_existing_events: the index of the listed events.                    *)
(***************************************************************************)
\* A variant of ExtractCardId without the split at the line break.
ExtractCardId_WholeRest(description) == Split(description, Marker)[2]

\* item["description"].split(marker)[1].split("\n")[0]
ExtractCardId(description) == Split(Split(description, Marker)[2], <<"\n">>)[1]

\* A variant of BuildIndex that keeps the entry of the earlier item.
RECURSIVE BuildIndex_FirstWins(_)
BuildIndex_FirstWins(items) ==
    IF items = <<>> THEN <<>>
    ELSE LET events == BuildIndex_FirstWins(SubSeq(items, 1, Len(items) - 1))
             item   == items[Len(items)]
             desc   == GetOr(item.description, <<>>)
         IN  IF Contains(desc, Marker)
             THEN events @@ (ExtractCardId(desc) :> item.id)
             ELSE events

\* The loop over results.get("items", []): a later item replaces the entry
\* of an earlier one with the same card id.
RECURSIVE BuildIndex(_)
BuildIndex(items) ==
    IF items = <<>> THEN <<>>
    ELSE LET events == BuildIndex(SubSeq(items, 1, Len(items) - 1))
             item   == items[Len(items)]
             desc   == GetOr(item.description, <<>>)
         IN  IF Contains(desc, Marker)
             THEN (ExtractCardId(desc) :> item.id) @@ events
             ELSE events

\* What events().list(maxResults=2500, fields="items(id,description)")
\* answers for a calendar: its first MaxResults events.
ListEvents(cal) ==
    IF Len(cal) <= MaxResults THEN cal ELSE SubSeq(cal, 1, MaxResults)

\* get_existing_events(service): ok is whether the request succeeded.
get_existing_events(cal, ok) == IF ok THEN BuildIndex(ListEvents(cal)) ELSE <<>>

(***************************************************************************)
(* update_or_create_event: the event built for a card.                     *)
(***************************************************************************)
\* A variant of SkipCondition: not any([start_date, due_date]).
SkipCondition_Any(start_date, due_date) == Falsy(start_date) /\ Falsy(due_date)

\* not all([start_date, due_date])
SkipCondition(start_date, due_date) == Falsy(start_date) \/ Falsy(due_date)

\* A variant of Description with the two lines in the other order.
Description_UrlFirst(card_id, url) ==
    <<"U", "R", "L", ":", " ">> \o Str(url) \o <<"\n">> \o Marker \o Str(card_id)

\* f"TrelloカードID: {card_id}\nURL: {card.get('url', '')}"
Description(card_id, url) ==
    Marker \o Str(card_id) \o <<"\n", "U", "R", "L", ":", " ">> \o Str(url)

\* A variant of EventBody whose end time is always the default.
EventBody_EndDefault(card, board_name, start, due) ==
    [summary     |-> <<"[">> \o Str(board_name) \o <<"]", " ">> \o Str(card.name),
     description |-> Description(card.id, GetOr(card.url, <<>>)),
     start       |-> [dateTime |-> Str(start.date) \o <<"T">> \o Or(start.time, DefaultStartTime),
                      timeZone |-> TimeZone],
     end         |-> [dateTime |-> Str(due.date) \o <<"T">> \o DefaultEndTime,
                      timeZone |-> TimeZone]]

\* A variant of EventBody whose start time is always the default.
EventBody_StartDefault(card, board_name, start, due) ==
    [summary     |-> <<"[">> \o Str(board_name) \o <<"]", " ">> \o Str(card.name),
     description |-> Description(card.id, GetOr(card.url, <<>>)),
     start       |-> [dateTime |-> Str(start.date) \o <<"T">> \o DefaultStartTime,
                      timeZone |-> TimeZone],
     end         |-> [dateTime |-> Str(due.date) \o <<"T">> \o Or(due.time, DefaultEndTime),
                      timeZone |-> TimeZone]]

\* The dict event of lines 156-167.
EventBody(card, board_name, start, due) ==
    [summary     |-> <<"[">> \o Str(board_name) \o <<"]", " ">> \o Str(card.name),
     description |-> Description(card.id, GetOr(card.url, <<>>)),
     start       |-> [dateTime |-> Str(start.date) \o <<"T">> \o Or(start.time, DefaultStartTime),
                      timeZone |-> TimeZone],
     end         |-> [dateTime |-> Str(due.date) \o <<"T">> \o Or(due.time, DefaultEndTime),
                      timeZone |-> TimeZone]]

(***************************************************************************)
(* The two services and the environment the script runs in.                *)
(***************************************************************************)
\* The most cards the Trello list holds.
MaxCards == 2

\* The most runs of main() in one behaviour.
MaxRuns == 2

BoardId == <<"b", "1">>

\* The name the board has on Trello.
BoardName == <<"W", "o", "r", "k">>

IdA == <<"6", "7", "a">>
IdB == <<"b", "2">>

\* An id that begins like the marker.
IdC == <<"T", "r", "e">>

TsDue == <<"2", "0", "2", "5", "-", "0", "3", "-", "1", "0", "T", "0", "9", ":", "0", "0", ":", "0", "0", "Z">>
TsStart == <<"2", "0", "2", "5", "-", "0", "3", "-", "0", "9", "T", "1", "6", ":", "3", "0", ":", "0", "0", ".", "0", "0", "0", "Z">>
TsLate == <<"2", "0", "2", "5", "-", "0", "6", "-", "3", "0", "T", "1", "5", ":", "0", "0", ":", "0", "0", "Z">>
TsFar == <<"9", "9", "9", "9", "-", "1", "2", "-", "3", "1", "T", "2", "0", ":", "0", "0", ":", "0", "0", "Z">>
TsBad == <<"n", "o", "t", "-", "a", "-", "d", "a", "t", "e">>

UrlPlain == <<"h", "t", "t", "p", "s", ":", "/", "/", "x">>

\* A URL field that holds a line break and the marker text.
UrlOdd == <<"u", "\n">> \o Marker \o <<"z">>

NewCard(id, name, start, due, url) ==
    [id |-> id, name |-> name, start |-> start, due |-> due,
     idBoard |-> BoardId, url |-> url]

\* The cards the list can hold.  Two cards of one id are two versions of
\* the same card; a list holds at most one of them.
CardPool ==
    << NewCard(IdA, <<"S", "h", "i", "p">>, None, TsDue, UrlPlain),
       NewCard(IdA, <<"P", "l", "a", "n">>, TsStart, TsDue, UrlPlain),
       NewCard(IdB, Absent, None, TsDue, UrlPlain),
       NewCard(IdB, <<"I", "d", "e", "a">>, None, None, UrlPlain),
       NewCard(IdB, <<"B", "a", "d">>, None, TsBad, Absent),
       NewCard(IdB, <<"F", "a", "r">>, None, TsFar, UrlPlain),
       NewCard(IdC, <<"O", "p", "e", "n">>, TsStart, None, UrlPlain),
       NewCard(IdC, <<"L", "a", "t", "e">>, <<>>, TsLate, UrlOdd) >>

\* The lists of at most n cards of the pool from position k on, in the
\* pool's order, no two with the same id.
RECURSIVE ListsFrom(_, _)
ListsFrom(k, n) ==
    IF n = 0 \/ k > Len(CardPool) THEN {<<>>}
    ELSE ListsFrom(k + 1, n)
         \cup {<<CardPool[k]>> \o l : l \in
                 {m \in ListsFrom(k + 1, n - 1) :
                     \A j \in 1..Len(m) : m[j].id # CardPool[k].id}}

Snapshots == ListsFrom(1, MaxCards)

EventId(n) == <<"e">> \o Dec(n)

\* An event a person put into the calendar: no description.
UserEvent(n) ==
    [id |-> EventId(n), summary |-> <<"L", "u", "n", "c", "h">>,
     description |-> Absent,
     start |-> [dateTime |-> <<"2", "0", "2", "5", "-", "0", "3", "-", "1", "0", "T", "1", "2", ":", "0", "0", ":", "0", "0">>, timeZone |-> TimeZone],
     end   |-> [dateTime |-> <<"2", "0", "2", "5", "-", "0", "3", "-", "1", "0", "T", "1", "3", ":", "0", "0", ":", "0", "0">>, timeZone |-> TimeZone]]

\* An event an earlier run wrote for the card IdA.
ManagedEvent(n) ==
    [id |-> EventId(n)] @@
    EventBody(CardPool[1], BoardName, convert_utc_to_jst(TsDue),
              convert_utc_to_jst(TsDue))

\* An event whose description a person edited: some text, then the marker
\* twice on one line, with the id IdC after the first and IdA after the
\* second.
EditedEvent(n) ==
    [UserEvent(n) EXCEPT
        !.description = <<"s", "e", "e", " ">> \o Marker \o IdC \o Marker \o IdA]

InitialCalendars ==
    { <<>>,
      <<ManagedEvent(1)>>,
      <<ManagedEvent(1), UserEvent(2), ManagedEvent(3)>>,
      <<EditedEvent(1)>> }

\* os.getenv of the three variables: whether each is set, and whether the
\* service-account JSON, when set, is usable.
Environments ==
    [TRELLO_API_KEY : BOOLEAN, TRELLO_TOKEN : BOOLEAN,
     SERVICE_ACCOUNT_JSON : {"unset", "invalid", "valid"}]

(***************************************************************************)
(* State.                                                                  *)
(***************************************************************************)
VARIABLES
    env,              \* the environment variables of the process
    trello,           \* the cards of the Trello list LIST_ID
    calendar,         \* the events of the calendar CALENDAR_ID, oldest first
    pc,               \* where main() is: "idle" before the first run, the
                      \* name of the next step while it runs, "done" after
                      \* it returned, "fatal" after it raised
    existing_events,  \* main's local: card id -> event id
    cards,            \* main's local: the fetched cards
    i,                \* the position of the for loop in cards
    calls,            \* the update and insert requests of this run, in order
    labels,           \* what get_board_name returned in this run, by card
    network,          \* the number of requests this run sent to either service
    error,            \* the exception main raised ("" when none)
    indexOk,          \* this run's events().list() request succeeded
    fetchOk,          \* this run's request for the cards succeeded
    summary,          \* the two numbers of the last line main prints
    runs,             \* the number of runs started
    prev,             \* what the run before this one did
    before,           \* the calendar as it was when this run started
    degraded,         \* some run so far got no answer to events().list()
    seeded            \* the calendar held marked events before the first run

vars == <<env, trello, calendar, pc, existing_events, cards, i, calls,
          labels, network, error, indexOk, fetchOk, summary, runs, prev, before,
          degraded, seeded>>

NoSummary == [printed |-> FALSE, new |-> 0, updated |-> 0]

\* failed: the ids of the cards whose insert request failed in that run or
\* in a run before it, and that got no successful request since.
NoRun == [ran |-> FALSE, returned |-> FALSE, cards |-> <<>>, fetchOk |-> FALSE,
          indexOk |-> FALSE, creates |-> 0, createsOk |-> FALSE, failed |-> {}]

\* The events of cal whose description holds the marker.
Marked(cal) ==
    {k \in 1..Len(cal) : Contains(GetOr(cal[k].description, <<>>), Marker)}

Init ==
    /\ env \in Environments
    /\ trello \in Snapshots
    /\ calendar \in InitialCalendars
    /\ pc = "idle"
    /\ existing_events = <<>>
    /\ cards = <<>>
    /\ i = 1
    /\ calls = <<>>
    /\ labels = <<>>
    /\ network = 0
    /\ error = ""
    /\ indexOk = FALSE
    /\ fetchOk = FALSE
    /\ summary = NoSummary
    /\ runs = 0
    /\ prev = NoRun
    /\ before = calendar
    /\ degraded = FALSE
    /\ seeded = (Marked(calendar) # {})

(***************************************************************************)
(* The calendar service.                                                   *)
(***************************************************************************)
\* A variant of Insert that stores the event twice.
Insert_Twice(cal, body) ==
    cal \o <<[id |-> EventId(Len(cal) + 1)] @@ body,
             [id |-> EventId(Len(cal) + 2)] @@ body>>

\* events().insert(body=event): the service gives the new event an id.
Insert(cal, body) == Append(cal, [id |-> EventId(Len(cal) + 1)] @@ body)

\* A variant of Update that replaces every event with the marker.
Update_EveryMarked(cal, event_id, body) ==
    [k \in 1..Len(cal) |->
        IF Contains(GetOr(cal[k].description, <<>>), Marker)
        THEN [id |-> cal[k].id] @@ body ELSE cal[k]]

\* events().update(eventId=event_id, body=event): the event is replaced.
Update(cal, event_id, body) ==
    [k \in 1..Len(cal) |->
        IF cal[k].id = event_id THEN [id |-> event_id] @@ body ELSE cal[k]]

(***************************************************************************)
(* main().                                                                 *)
(***************************************************************************)
Inserts == {k \in 1..Len(calls) : calls[k].op = "insert"}

Updates == {k \in 1..Len(calls) : calls[k].op = "update"}

\* The script is started (by its scheduler) when it is not running.
Start ==
    /\ pc \in {"idle", "done", "fatal"}
    /\ runs < MaxRuns
    /\ runs' = runs + 1
    /\ prev' = IF pc = "idle" THEN NoRun
               ELSE [ran |-> TRUE, returned |-> (pc = "done"), cards |-> cards,
                     fetchOk |-> fetchOk, indexOk |-> indexOk,
                     creates |-> Cardinality(Inserts),
                     createsOk |-> \A k \in Inserts : calls[k].ok,
                     failed |->
                         (prev.failed \ {cards[calls[k].item].id :
                                            k \in {n \in 1..Len(calls) : calls[n].ok}})
                         \cup {cards[calls[k].item].id :
                                  k \in {n \in Inserts : ~calls[n].ok}}]
    /\ before' = calendar
    /\ pc' = "get_google_service"
    /\ existing_events' = <<>>
    /\ cards' = <<>>
    /\ i' = 1
    /\ calls' = <<>>
    /\ labels' = <<>>
    /\ network' = 0
    /\ error' = ""
    /\ indexOk' = FALSE
    /\ fetchOk' = FALSE
    /\ summary' = NoSummary
    /\ UNCHANGED <<env, trello, calendar, degraded, seeded>>

\* calendar_service = get_google_service(): no request is sent; a missing
\* or unusable SERVICE_ACCOUNT_JSON raises, and main re-raises.
get_google_service ==
    /\ pc = "get_google_service"
    /\ IF env.SERVICE_ACCOUNT_JSON = "valid"
       THEN pc' = "get_existing_events" /\ error' = ""
       ELSE pc' = "fatal" /\ error' = "ValueError"
    /\ UNCHANGED <<env, trello, calendar, existing_events, cards, i, calls,
                   labels, network, indexOk, fetchOk, summary, runs, prev, before,
                   degraded, seeded>>

\* existing_events = get_existing_events(calendar_service)
main_get_existing_events ==
    /\ pc = "get_existing_events"
    /\ \E ok \in BOOLEAN :
          /\ existing_events' = get_existing_events(calendar, ok)
          /\ indexOk' = ok
          /\ degraded' = (degraded \/ ~ok)
    /\ network' = network + 1
    /\ pc' = "get_trello_cards"
    /\ UNCHANGED <<env, trello, calendar, cards, i, calls, labels, error, fetchOk,
                   summary, runs, prev, before, seeded>>

\* Trello answers a request only when it carries the key and the token.
TrelloAnswers(ok) == ok => (env.TRELLO_API_KEY /\ env.TRELLO_TOKEN)

\* A variant of get_trello_cards that answers with the cards whatever the
\* request did.
get_trello_cards_Stale(ok) == trello

\* get_trello_cards(): ok is whether the request succeeded.
get_trello_cards(ok) == IF ok THEN trello ELSE <<>>

\* cards = get_trello_cards(); if not cards: return
main_get_trello_cards ==
    /\ pc = "get_trello_cards"
    /\ \E ok \in BOOLEAN :
          /\ TrelloAnswers(ok)
          /\ cards' = get_trello_cards(ok)
          /\ fetchOk' = ok
    /\ network' = network + 1
    /\ pc' = IF cards' = <<>> THEN "done" ELSE "loop"
    /\ i' = 1
    /\ UNCHANGED <<env, trello, calendar, existing_events, calls, labels, error,
                   indexOk, summary, runs, prev, before, degraded,
                   seeded>>

\* The arguments update_or_create_event passes to convert_utc_to_jst for
\* the cards of the pool, and the results, computed once.
TimestampInputs ==
    {Or(Get(CardPool[k].start), Get(CardPool[k].due)) : k \in 1..Len(CardPool)}
    \cup {Get(CardPool[k].due) : k \in 1..Len(CardPool)}

ConvertTable == [utc_str \in TimestampInputs |-> convert_utc_to_jst(utc_str)]

\* get_board_name(board_id): ok is whether the request succeeded.
get_board_name(board_id, ok) ==
    IF ok THEN GetOr(BoardName, NamelessBoard) ELSE UnknownBoard

\* A variant of DispatchOp with the two branches exchanged.
DispatchOp_Inverted(event_id) == IF Falsy(event_id) THEN "update" ELSE "insert"

\* if event_id: update, else: insert (lines 170-176).
DispatchOp(event_id) == IF Falsy(event_id) THEN "insert" ELSE "update"

\* A variant of Escapes without the except clause.
Escapes_Uncaught(ok) == IF ok THEN "" ELSE "HttpError"

\* The exception that leaves the try block of lines 169-180 when the
\* request succeeded (ok) or failed: none, "except Exception" catches it.
Escapes(ok) == ""

\* The exception that leaves update_or_create_event before the try block:
\* card["id"] and card['name'] raise KeyError for a missing key, and
\* convert_utc_to_jst lets through what is not a ValueError.
Raises(card, start, due) ==
    IF card.id = Absent THEN "KeyError"
    ELSE IF start.raised \/ due.raised THEN "OverflowError"
    ELSE IF SkipCondition(start.date, due.date) THEN ""
    ELSE IF card.name = Absent THEN "KeyError"
    ELSE ""

\* A variant of PassedIndex that reads the index again from the calendar.
PassedIndex_Reread(events, cal) == get_existing_events(cal, TRUE)

\* The index that the loop of main passes to the next call of
\* update_or_create_event: the dict of line 189, which no call writes to,
\* whatever the calendar cal has become.
PassedIndex(events, cal) == events

\* update_or_create_event(calendar_service, card, existing_events) for the
\* card at position i of the loop of main, and main's handling of what it
\* raises (lines 203-205).
update_or_create_event ==
    /\ pc = "loop"
    /\ i <= Len(cards)
    /\ \E labelOk \in BOOLEAN, callOk \in BOOLEAN :
          LET card       == cards[i]
              board_name == get_board_name(card.idBoard, labelOk)
              event_id   == DictGet(existing_events, card.id)
              start      == ConvertTable[Or(Get(card.start), Get(card.due))]
              due        == ConvertTable[Get(card.due)]
              raised     == Raises(card, start, due)
              event      == EventBody(card, board_name, start, due)
              op         == DispatchOp(event_id)
          IN  /\ TrelloAnswers(labelOk)
              /\ labels' = Append(labels, board_name)
              /\ IF raised # ""
                 THEN /\ pc' = "fatal"
                      /\ error' = raised
                      /\ network' = network + 1
                      /\ UNCHANGED <<calendar, calls, i>>
                 ELSE IF SkipCondition(start.date, due.date)
                 THEN /\ i' = i + 1
                      /\ network' = network + 1
                      /\ UNCHANGED <<calendar, calls, pc, error>>
                 ELSE /\ calls' = Append(calls,
                             [op |-> op, item |-> i, eventId |-> event_id,
                              ok |-> callOk, body |-> event])
                      /\ calendar' =
                             IF ~callOk THEN calendar
                             ELSE IF op = "update" THEN Update(calendar, event_id, event)
                             ELSE Insert(calendar, event)
                      /\ network' = network + 2
                      /\ IF Escapes(callOk) = ""
                         THEN i' = i + 1 /\ UNCHANGED <<pc, error>>
                         ELSE pc' = "fatal" /\ error' = Escapes(callOk) /\ i' = i
    /\ existing_events' = PassedIndex(existing_events, calendar')
    /\ UNCHANGED <<env, trello, cards, indexOk, fetchOk,
                   summary, runs, prev, before, degraded, seeded>>

\* The end of the loop: main prints the summary line and returns.
main_summary ==
    /\ pc = "loop"
    /\ i > Len(cards)
    /\ summary' = [printed |-> TRUE,
                   new |-> Len(cards) - Cardinality(DOMAIN existing_events),
                   updated |-> Cardinality(DOMAIN existing_events)]
    /\ pc' = "done"
    /\ UNCHANGED <<env, trello, calendar, existing_events, cards, i, calls,
                   labels, network, error, indexOk, fetchOk, runs, prev, before,
                   degraded, seeded>>

\* Between two runs a card is archived: it leaves the list.
ArchiveCard ==
    /\ pc \in {"done", "fatal"}
    /\ runs < MaxRuns
    /\ \E k \in 1..Len(trello) :
          trello' = SubSeq(trello, 1, k - 1) \o SubSeq(trello, k + 1, Len(trello))
    /\ UNCHANGED <<env, calendar, pc, existing_events, cards, i, calls,
                   labels, network, error, indexOk, fetchOk, summary, runs, prev,
                   before, degraded, seeded>>

Next ==
    \/ Start
    \/ get_google_service
    \/ main_get_existing_events
    \/ main_get_trello_cards
    \/ update_or_create_event
    \/ main_summary
    \/ ArchiveCard

Spec == Init /\ [][Next]_vars

(***************************************************************************)
(* The same program with the cards taken in any order: the loop of main    *)
(* runs over a permutation of the fetched list.                            *)
(***************************************************************************)
\* The lists that hold the elements of s in some order.
Orders(s) ==
    IF s = <<>> THEN {<<>>}
    ELSE {[k \in 1..Len(s) |-> s[f[k]]] : f \in Permutations(1..Len(s))}

\* cards = get_trello_cards(); if not cards: return -- and the loop then
\* takes the cards in some order.
main_get_trello_cards_AnyOrder ==
    /\ pc = "get_trello_cards"
    /\ \E ok \in BOOLEAN :
          /\ TrelloAnswers(ok)
          /\ cards' \in Orders(get_trello_cards(ok))
          /\ fetchOk' = ok
    /\ network' = network + 1
    /\ pc' = IF cards' = <<>> THEN "done" ELSE "loop"
    /\ i' = 1
    /\ UNCHANGED <<env, trello, calendar, existing_events, calls, labels, error,
                   indexOk, summary, runs, prev, before, degraded,
                   seeded>>

NextAnyOrder ==
    \/ Start
    \/ get_google_service
    \/ main_get_existing_events
    \/ main_get_trello_cards_AnyOrder
    \/ update_or_create_event
    \/ main_summary
    \/ ArchiveCard

AnyOrderSpec == Init /\ [][NextAnyOrder]_vars

(***************************************************************************)
(* Properties.                                                             *)
(***************************************************************************)
\* main() returned or raised.
Ended == pc \in {"done", "fatal"}

\* get_existing_events has returned in this run.
IndexReturned ==
    pc \in {"get_trello_cards", "loop", "done"} \/ (pc = "fatal" /\ network > 0)

\* get_trello_cards has returned in this run.
FetchReturned == pc \in {"loop", "done"} \/ (pc = "fatal" /\ network > 0)

\* Both conversions of the card's timestamps yield a date.
HasDates(card) ==
    /\ ConvertTable[Or(Get(card.start), Get(card.due))].date # None
    /\ ConvertTable[Get(card.due)].date # None

\* A conversion of the card's timestamps raises.
ConversionRaises(card) ==
    \/ ConvertTable[Or(Get(card.start), Get(card.due))].raised
    \/ ConvertTable[Get(card.due)].raised

\* The card is one to skip: its conversions return, one of them without a
\* date (no timestamp at all, no due timestamp, or a string that is not
\* parsed).
Skippable(card) == ~ConversionRaises(card) /\ ~HasDates(card)

\* The requests of this run for the card at position j.
CallsFor(j) == {k \in 1..Len(calls) : calls[k].item = j}

\* The card at position j got exactly the one request the index asks for.
DispatchedAsIndexed(j) ==
    /\ Cardinality(CallsFor(j)) = 1
    /\ \A k \in CallsFor(j) :
          IF cards[j].id \in DOMAIN existing_events
          THEN calls[k].op = "update" /\ calls[k].eventId = existing_events[cards[j].id]
          ELSE calls[k].op = "insert"

\* The events of the calendar written for the card id: the description
\* begins with the marker, the id and a line break.
EventsOf(id) ==
    {k \in 1..Len(calendar) :
        OccursAt(GetOr(calendar[k].description, <<>>), Marker \o id \o <<"\n">>, 1)}

CardIds == {CardPool[k].id : k \in 1..Len(CardPool)}

\* This run and the one before it both fetched the same cards and both
\* got the list of the events.
SameSnapshotTwice ==
    /\ Ended
    /\ prev.ran
    /\ prev.fetchOk /\ fetchOk
    /\ prev.cards = cards
    /\ prev.indexOk /\ indexOk

C2_AtMostOneEventPerCard ==
    (Ended /\ ~seeded /\ ~degraded)
        => \A id \in CardIds : Cardinality(EventsOf(id)) <= 1

C2_Witness ==
    /\ Ended
    /\ ~seeded
    /\ ~degraded
    /\ runs = 2
    /\ Updates # {}
    /\ \E k \in Updates : calls[k].ok
    /\ \E id \in CardIds : Cardinality(EventsOf(id)) = 1

\* C3: the description of every insert or update request holds the marker
\* and is parsed back to the id of the card it was built for, and after a
\* successful request the index built from the calendar holds that id.
C3_IdentityRoundTrip ==
    \A k \in 1..Len(calls) :
        /\ Contains(calls[k].body.description, Marker)
        /\ ExtractCardId(calls[k].body.description) = cards[calls[k].item].id
        /\ calls[k].ok =>
              cards[calls[k].item].id \in DOMAIN get_existing_events(calendar, TRUE)

C3_Witness ==
    \E k \in 1..Len(calls) :
        /\ calls[k].ok
        /\ calls[k].op = "insert"
        /\ cards[calls[k].item].id = IdC
        /\ cards[calls[k].item].url = UrlOdd

C5_DispatchCorrectness ==
    Ended => \A j \in 1..Len(cards) : HasDates(cards[j]) => DispatchedAsIndexed(j)

\* C6: the loop has moved past the card of every request, failed or not;
\* no card gets two requests in a run; and every card with dates that the
\* loop has passed got exactly the request the index asks for, whatever
\* the outcome of the requests before it.
C6_FailureIsolation ==
    /\ \A k \in 1..Len(calls) : calls[k].item < i
    /\ \A j \in 1..Len(cards) : Cardinality(CallsFor(j)) <= 1
    /\ \A j \in 1..Len(cards) : (j < i /\ HasDates(cards[j])) => DispatchedAsIndexed(j)

C6_Witness ==
    \E k1, k2 \in 1..Len(calls) :
        /\ ~calls[k1].ok
        /\ calls[k1].item < calls[k2].item
        /\ calls[k2].ok

\* C7 as stated: main raises only when get_google_service fails, that is
\* before any request and with no usable service-account material.
C7_OnlyConfigurationOrAuthenticationAborts ==
    pc = "fatal" => (network = 0 /\ env.SERVICE_ACCOUNT_JSON # "valid")

\* C8 as stated: with the Trello key, the Trello token or the
\* service-account material missing, a run sends no request and ends by
\* raising.
C8_ConfigurationFailFast ==
    (/\ pc # "idle"
     /\ \/ ~env.TRELLO_API_KEY
        \/ ~env.TRELLO_TOKEN
        \/ env.SERVICE_ACCOUNT_JSON = "unset")
        => (network = 0 /\ (Ended => pc = "fatal"))

\* C9 as stated: when the list request fails the index is empty, the run
\* goes on, and at its end every card with dates got exactly one insert
\* request and no update request was sent.
C9_IndexDegrade ==
    (IndexReturned /\ ~indexOk)
        => /\ existing_events = <<>>
           /\ Updates = {}
           /\ Ended => /\ pc = "done"
                       /\ \A j \in 1..Len(cards) :
                             HasDates(cards[j]) =>
                                 /\ Cardinality(CallsFor(j)) = 1
                                 /\ CallsFor(j) \subseteq Inserts

\* C10: when the request for the cards fails, main has no cards, returns
\* without raising, has sent no insert or update request and has left the
\* calendar as it was when the run started.
C10_SourceDegrade ==
    (FetchReturned /\ ~fetchOk)
        => /\ cards = <<>>
           /\ pc = "done"
           /\ error = ""
           /\ calls = <<>>
           /\ calendar = before

C10_Witness ==
    /\ pc = "done"
    /\ ~fetchOk
    /\ env.TRELLO_API_KEY /\ env.TRELLO_TOKEN
    /\ trello # <<>>
    /\ indexOk
    /\ calendar = before

\* The event is not one the run manages: its description has no marker, or
\* the id read from it is the id of no card of cs.
Unmanaged(event, cs) ==
    LET desc == GetOr(event.description, <<>>) IN
    \/ ~Contains(desc, Marker)
    \/ \A j \in 1..Len(cs) : cs[j].id # ExtractCardId(desc)

\* C11: every event the calendar held when the run started is still in
\* the calendar, and every such event without the marker, or whose id
\* read from the description is the id of no fetched card, is as it was
\* (title, description, start, end).
C11_NeverDeletesTouchesOnlyManaged ==
    \A k \in 1..Len(before) :
        \E m \in 1..Len(calendar) :
            /\ calendar[m].id = before[k].id
            /\ Unmanaged(before[k], cards) => calendar[m] = before[k]

C11_Witness ==
    /\ Ended
    /\ calendar # before
    /\ \E k \in Updates : calls[k].ok
    /\ \E k \in 1..Len(before) : before[k].description = Absent
    /\ \E k \in 1..Len(before) :
          /\ Contains(GetOr(before[k].description, <<>>), Marker)
          /\ Unmanaged(before[k], cards)

\* The two arguments update_or_create_event passes to convert_utc_to_jst
\* for a card.
ConversionArgs(card) == {Or(Get(card.start), Get(card.due)), Get(card.due)}

\* Which of the timestamps of the cards strptime parses, computed once.
ParseTable ==
    [utc_str \in TimestampInputs |->
        /\ ~Falsy(utc_str)
        /\ strptime(utc_str,
                    IF Contains(utc_str, <<".">>) THEN FormatFraction
                    ELSE FormatPlain).ok]

\* C12 as stated: for every timestamp of a fetched card convert_utc_to_jst
\* returns without raising; for one that is not parsed (empty, absent or of
\* neither format) it returns (None, None); for a parsed one
\* YYYY-MM-DDTHH:MM:SS[.f]Z the time is HH plus 9 modulo 24 with the same
\* minutes and seconds and no fraction, and the date is the same date when
\* HH is below 15 and another date when HH is 15 or more.
C12_TimestampNormalization ==
    \A j \in 1..Len(cards) : \A utc_str \in ConversionArgs(cards[j]) :
        LET r == ConvertTable[utc_str] IN
        /\ ~r.raised
        /\ ~ParseTable[utc_str] => (r.date = None /\ r.time = None)
        /\ ParseTable[utc_str] =>
              /\ r.time = Pad2((Num(utc_str, 12, 2) + 9) % 24) \o SubSeq(utc_str, 14, 19)
              /\ Num(utc_str, 12, 2) < 15 => r.date = SubSeq(utc_str, 1, 10)
              /\ Num(utc_str, 12, 2) >= 15 =>
                    (r.date # None /\ r.date # SubSeq(utc_str, 1, 10))

\* The card has no start: the key is missing, or its value is null or "".
NoStart(card) == Falsy(Get(card.start))

\* The date and the time of a dateTime string <date>T<time>.
DatePart(dateTime) == SubSeq(dateTime, 1, Find(dateTime, <<"T">>, 1) - 1)

TimePart(dateTime) ==
    SubSeq(dateTime, Find(dateTime, <<"T">>, 1) + 1, Len(dateTime))

\* C13: in every insert or update request for a card without a start, the
\* start date is the end date and the end time is the time of the due
\* timestamp at UTC+9 (15:00:00Z on 30 June ends at 00:00:00 on 1 July).
C13_FallbackDates ==
    \A k \in 1..Len(calls) :
        LET card == cards[calls[k].item]
            body == calls[k].body
        IN  NoStart(card) =>
              /\ DatePart(body.start.dateTime) = DatePart(body.end.dateTime)
              /\ TimePart(body.end.dateTime) = ConvertTable[Get(card.due)].time
              /\ card.due = TsLate =>
                    body.end.dateTime = <<"2", "0", "2", "5", "-", "0", "7", "-", "0", "1", "T", "0", "0", ":", "0", "0", ":", "0", "0">>
              /\ card.due = TsDue =>
                    body.end.dateTime = <<"2", "0", "2", "5", "-", "0", "3", "-", "1", "0", "T", "1", "8", ":", "0", "0", ":", "0", "0">>

C13_Witness ==
    /\ \E k \in 1..Len(calls) :
          cards[calls[k].item].start = <<>> /\ cards[calls[k].item].due = TsLate
    /\ \E k \in 1..Len(calls) :
          cards[calls[k].item].start = None /\ cards[calls[k].item].due = TsDue

\* C14 as stated: in every insert or update request for a card without a
\* start, the start time is the default 09:00:00.
C14_FallbackDefaultStartTime ==
    \A k \in 1..Len(calls) :
        NoStart(cards[calls[k].item]) =>
            TimePart(calls[k].body.start.dateTime) = DefaultStartTime

\* C14, amended: in every insert or update request for a card without a
\* start, the start time is the time of the due timestamp at UTC+9, the
\* same as the end time (18:00:00 for a due at 09:00:00Z).
C14_FallbackStartTimeIsDueTime ==
    \A k \in 1..Len(calls) :
        LET card == cards[calls[k].item]
            body == calls[k].body
        IN  NoStart(card) =>
              /\ TimePart(body.start.dateTime) = ConvertTable[Get(card.due)].time
              /\ TimePart(body.start.dateTime) = TimePart(body.end.dateTime)
              /\ card.due = TsDue =>
                    TimePart(body.start.dateTime) = <<"1", "8", ":", "0", "0", ":", "0", "0">>

C14_Witness ==
    \E k \in 1..Len(calls) :
        /\ cards[calls[k].item].start = None
        /\ cards[calls[k].item].due = TsDue
        /\ TimePart(calls[k].body.start.dateTime) # DefaultStartTime
        /\ calls[k].ok

\* "[不明なボード] ": how the title of a card begins when get_board_name
\* returned the label of a failed request.
UnknownBoardPrefix == <<"[">> \o UnknownBoard \o <<"]", " ">>

\* C15 as stated: every card with dates for which get_board_name got no
\* answer, and so returned the fixed label, got one insert or update
\* request whose title begins with that label, and main did not raise at
\* that card.
C15_LabelNeverBlocksScheduling ==
    \A j \in 1..Len(labels) :
        (labels[j] = UnknownBoard /\ HasDates(cards[j])) =>
            /\ Cardinality(CallsFor(j)) = 1
            /\ \A k \in CallsFor(j) :
                  OccursAt(calls[k].body.summary, UnknownBoardPrefix, 1)
            /\ ~(pc = "fatal" /\ i = j)

\* The ids of the events of a calendar.
EventIds(cal) == {cal[k].id : k \in 1..Len(cal)}

\* The index is built by the first request of a run, before any insert or
\* update; every request is the one the index of main asks for; and every
\* updated event was in the calendar when the run started.
C16_BuiltBeforeWrites ==
    /\ pc = "get_existing_events" => (network = 0 /\ calls = <<>>)
    /\ calls # <<>> => IndexReturned
    /\ \A k \in 1..Len(calls) :
          /\ calls[k].eventId = DictGet(existing_events, cards[calls[k].item].id)
          /\ calls[k].op = "update" => calls[k].eventId \in EventIds(before)

\* The index changes only where main builds it (and where the next run
\* starts with none).
C16_IndexReadOnly ==
    existing_events' # existing_events
        => (pc = "get_existing_events" \/ pc' = "get_google_service")

\* C16: in every run the index is built once, before the first insert or
\* update, and is not modified while the cards are processed; an event
\* inserted for a card in a run is never taken as existing by a later card
\* of that run.
C16_SnapshotBeforeWrites == []C16_BuiltBeforeWrites /\ [][C16_IndexReadOnly]_vars

C16_Witness ==
    /\ pc = "done"
    /\ Len(calls) = 2
    /\ calls[1].op = "insert" /\ calls[1].ok
    /\ calls[2].op = "update" /\ calls[2].ok
    /\ cards[1].id \notin DOMAIN existing_events
    /\ cards[1].id \in DOMAIN get_existing_events(calendar, TRUE)

\* The events of cal that the index builder reads the card id from.
Carriers(cal, id) ==
    {k \in 1..Len(cal) :
        LET desc == GetOr(cal[k].description, <<>>) IN
        Contains(desc, Marker) /\ ExtractCardId(desc) = id}

\* main returned after the loop, it got the list of the events, and every
\* insert and update request of the run succeeded.
RunSucceeded ==
    /\ pc = "done"
    /\ indexOk
    /\ \A k \in 1..Len(calls) : calls[k].ok

\* C17 as stated: after a run that succeeded, every fetched card with
\* dates whose insert request failed in an earlier run (with no successful
\* request since) got one insert request in this run, and the calendar
\* holds exactly one event for it.
C17_RetryOnNextRun ==
    RunSucceeded =>
        \A j \in 1..Len(cards) :
            (cards[j].id \in prev.failed /\ HasDates(cards[j])) =>
                /\ Cardinality(CallsFor(j)) = 1
                /\ CallsFor(j) \subseteq Inserts
                /\ Cardinality(Carriers(calendar, cards[j].id)) = 1

\* C17, amended: the same for the cards that had no event in the calendar
\* when the run started.
C17_RetryOfItemWithoutEvent ==
    RunSucceeded =>
        \A j \in 1..Len(cards) :
            (/\ cards[j].id \in prev.failed
             /\ HasDates(cards[j])
             /\ Carriers(before, cards[j].id) = {}) =>
                /\ Cardinality(CallsFor(j)) = 1
                /\ CallsFor(j) \subseteq Inserts
                /\ Cardinality(Carriers(calendar, cards[j].id)) = 1

C17_Witness ==
    /\ RunSucceeded
    /\ \E j \in 1..Len(cards) :
          /\ cards[j].id \in prev.failed
          /\ HasDates(cards[j])
          /\ Carriers(before, cards[j].id) = {}
          /\ CallsFor(j) # {}
          /\ CallsFor(j) \subseteq Inserts
          /\ Cardinality(Carriers(calendar, cards[j].id)) = 1

\* The text of s from position q up to the next line break or the end.
UpToLineBreak(s, q) ==
    LET n == Find(s, <<"\n">>, q) IN
    SubSeq(s, q, IF n = 0 THEN Len(s) ELSE n - 1)

\* The identifiers a description carries, read as the claim reads them:
\* what follows an occurrence of the marker, up to the next line break or
\* the end.
CarriedIds(desc) ==
    {UpToLineBreak(desc, p + Len(Marker)) :
        p \in {q \in 1..Len(desc) : OccursAt(desc, Marker, q)}}

\* The identifier a description with the marker carries, read from its
\* first marker only: what follows it up to the next line break, the next
\* marker or the end.
FirstCarriedId(desc) ==
    LET q == Find(desc, Marker, 1) + Len(Marker)
        n == Find(desc, <<"\n">>, q)
        m == Find(desc, Marker, q)
        stops == {e \in {n, m} : e # 0}
    IN  SubSeq(desc, q,
               IF stops = {} THEN Len(desc)
               ELSE (CHOOSE e \in stops : \A f \in stops : e <= f) - 1)

\* The description of the k-th event of the list items ("" when it has
\* none).
DescriptionOf(items, k) == GetOr(items[k].description, <<>>)

\* No two update requests of the run are for events that carry the same
\* identifier in the calendar of the start of the run.
AtMostOneUpdatedPerId ==
    \A k1, k2 \in Updates :
        (\E n1, n2 \in 1..Len(before) :
            /\ before[n1].id = calls[k1].eventId
            /\ before[n2].id = calls[k2].eventId
            /\ Contains(DescriptionOf(before, n1), Marker)
            /\ Contains(DescriptionOf(before, n2), Marker)
            /\ ExtractCardId(DescriptionOf(before, n1))
                 = ExtractCardId(DescriptionOf(before, n2)))
        => k1 = k2

\* C18 as stated: the index of a successful get_existing_events holds an
\* identifier exactly when the description of a listed event holds the
\* marker followed by that identifier up to the next line break or the
\* end; it maps the identifier to the last listed of these events; and at
\* most one of the events with one identifier is updated in the run.
C18_IndexConstruction ==
    (IndexReturned /\ indexOk) =>
        LET items == ListEvents(before) IN
        /\ DOMAIN existing_events
             = UNION {CarriedIds(DescriptionOf(items, k)) : k \in 1..Len(items)}
        /\ \A id \in DOMAIN existing_events :
              \E k \in 1..Len(items) :
                  /\ id \in CarriedIds(DescriptionOf(items, k))
                  /\ existing_events[id] = items[k].id
                  /\ \A n \in (k + 1)..Len(items) :
                        id \notin CarriedIds(DescriptionOf(items, n))
        /\ AtMostOneUpdatedPerId

\* C18, amended: the same, with the identifier read from the first marker
\* of a description only, and up to the next line break, the next marker
\* or the end.
C18_IndexOfFirstMarker ==
    (IndexReturned /\ indexOk) =>
        LET items  == ListEvents(before)
            marked == {k \in 1..Len(items) : Contains(DescriptionOf(items, k), Marker)}
        IN
        /\ DOMAIN existing_events
             = {FirstCarriedId(DescriptionOf(items, k)) : k \in marked}
        /\ \A id \in DOMAIN existing_events :
              \E k \in marked :
                  /\ FirstCarriedId(DescriptionOf(items, k)) = id
                  /\ existing_events[id] = items[k].id
                  /\ \A n \in marked :
                        n > k => FirstCarriedId(DescriptionOf(items, n)) # id
        /\ AtMostOneUpdatedPerId

C18_Witness ==
    /\ IndexReturned /\ indexOk
    /\ Len(before) = 3
    /\ before[2].description = Absent
    /\ FirstCarriedId(before[1].description) = FirstCarriedId(before[3].description)
    /\ existing_events = (IdA :> EventId(3))
    /\ \E k \in Updates : calls[k].ok /\ calls[k].eventId = EventId(3)

\* An insert or update request as the calendar service sees it, the title
\* aside (the title holds the label, which depends on the board request).
CallOf(op, card_id, event_id, body) ==
    [op |-> op, id |-> card_id, eventId |-> event_id,
     description |-> body.description, start |-> body.start, end |-> body.end]

\* The requests of this run.
IssuedCalls ==
    {CallOf(calls[k].op, cards[calls[k].item].id, calls[k].eventId, calls[k].body) :
        k \in 1..Len(calls)}

\* The position of the first card of cs at which update_or_create_event
\* raises (Len(cs) + 1 when there is none).
FirstRaising(cs) ==
    LET at == {j \in 1..Len(cs) :
                  Raises(cs[j], ConvertTable[Or(Get(cs[j].start), Get(cs[j].due))],
                         ConvertTable[Get(cs[j].due)]) # ""}
    IN  IF at = {} THEN Len(cs) + 1 ELSE CHOOSE j \in at : \A n \in at : j <= n

\* The requests of the loop of main over the list cs, in the order of cs,
\* with the index events.
SequentialCalls(cs, events) ==
    {CallOf(DispatchOp(DictGet(events, cs[j].id)), cs[j].id, DictGet(events, cs[j].id),
            EventBody(cs[j], BoardName,
                      ConvertTable[Or(Get(cs[j].start), Get(cs[j].due))],
                      ConvertTable[Get(cs[j].due)])) :
        j \in {n \in 1..(FirstRaising(cs) - 1) : HasDates(cs[n])}}

\* The calendar cal after the successful requests of this run, applied in
\* the order in which the list trello holds their cards, from position p
\* on.
RECURSIVE InListOrder(_, _)
InListOrder(cal, p) ==
    IF p > Len(trello) THEN cal
    ELSE LET ks == {k \in 1..Len(calls) :
                       cards[calls[k].item].id = trello[p].id /\ calls[k].ok}
         IN  IF ks = {} THEN InListOrder(cal, p + 1)
             ELSE LET c == calls[CHOOSE k \in ks : TRUE] IN
                  InListOrder(IF c.op = "update" THEN Update(cal, c.eventId, c.body)
                              ELSE Insert(cal, c.body), p + 1)

\* The events of a calendar, the ids that the service gave them aside.
Contents(cal) ==
    {[summary |-> cal[k].summary, description |-> cal[k].description,
      start |-> cal[k].start, end |-> cal[k].end] : k \in 1..Len(cal)}

\* C19 as stated: when the loop has taken the cards of the list in some
\* order and main has ended, the insert and update requests of the run are
\* those of the loop over the list in its own order, and the calendar
\* holds what these requests, applied in the order of the list, leave.
C19_OrderIndependence ==
    (Ended /\ fetchOk /\ cards \in Orders(trello)) =>
        /\ IssuedCalls = SequentialCalls(trello, existing_events)
        /\ Contents(calendar) = Contents(InListOrder(before, 1))

\* C20 as stated: when main has printed the summary, its first number is
\* the number of insert requests of the run, its second number is the
\* number of update requests of the run, and neither is negative.
C20_SummaryAccuracy ==
    summary.printed =>
        /\ summary.new = Cardinality(Inserts)
        /\ summary.updated = Cardinality(Updates)
        /\ summary.new >= 0
        /\ summary.updated >= 0

=============================================================================
